---- MODULE Spec2Model ----
(***************************************************************************)
(* The calculator of src/App.tsx as a state machine.                       *)
(*                                                                         *)
(* JavaScript strings are sequences of one-character strings, so that      *)
(* includes, split, concatenation and length are computed on characters.   *)
(* JavaScript numbers are records [kind, n]:                               *)
(*   kind = "fin"  the finite double n / 2^FracBits.  Every value of this  *)
(*                 form within MaxAbs is a dyadic rational far below 2^53, *)
(*                 so IEEE-754 +, -, *, / on such values is exact whenever *)
(*                 the exact result is again of this form;                 *)
(*   kind = "inf"  Infinity (n = 1) or -Infinity (n = -1);                 *)
(*   kind = "nan"  NaN;                                                    *)
(*   kind = "inexact"  a finite double outside the modelled set (its       *)
(*                 digits would need the rounding of IEEE-754); the        *)
(*                 actions are guarded so that no state holds one;         *)
(*   kind = "null" the null of `number | null`.                            *)
(* The sign of a zero is not kept in a number: String(-0) is "0" and       *)
(* calculate tests val2 === 0 before dividing, so it never shows, except   *)
(* in formatDisplayValue, which reads it from the text it parses.          *)
(***************************************************************************)
EXTENDS Integers, Sequences, FiniteSets, TLC

VARIABLES
    state,      \* the CalculatorState held by useState (App.tsx:48)
    lastLabel,  \* history: the label of the last button click, <<>> before the first
    prior,      \* history: the CalculatorState before the last button click
    typed,      \* history: digit and '.' clicks since the display was last
                \* set by anything else (construction, AC, a result, an operator)
    script,     \* the labels of a scripted run of clicks (empty when the
                \* buttons are clicked freely)
    pos         \* how many labels of the script have been clicked

vars == <<state, lastLabel, prior, typed, script, pos>>

----------------------------------------------------------------------------
(* Bounds of the model *)

\* finite numbers are multiples of 2^-FracBits
FracBits == 1
\* largest magnitude of a finite number the actions compute with
MaxAbs == 12
\* most digit and '.' clicks that enter one operand
MaxTyped == 2

\* whole numbers of more decimal digits than this are held as their digits
MaxWordDigits == 9

\* the digit buttons clicked in the model (a subset of the keypad's ten)
KeypadDigits == {<<"0">>, <<"2">>, <<"5">>}

----------------------------------------------------------------------------
(* Text *)

DigitChars == <<"0", "1", "2", "3", "4", "5", "6", "7", "8", "9">>
InfinityChars == <<"I", "n", "f", "i", "n", "i", "t", "y">>
NaNChars == <<"N", "a", "N">>
ErrorChars == <<"E", "r", "r", "o", "r">>

IsDigit(c) == \E i \in 1..10 : DigitChars[i] = c
DigitValue(c) == (CHOOSE i \in 1..10 : DigitChars[i] = c) - 1

\* String.prototype.includes
Includes(s, p) ==
    \E i \in 1..(Len(s) - Len(p) + 1) : SubSeq(s, i, i + Len(p) - 1) = p

StartsWith(s, p) == Len(s) >= Len(p) /\ SubSeq(s, 1, Len(p)) = p

RECURSIVE Pow(_, _)
Pow(b, e) == IF e = 0 THEN 1 ELSE b * Pow(b, e - 1)

Scale == Pow(2, FracBits)

\* the longest prefix of s made of decimal digits
RECURSIVE DigitRun(_)
DigitRun(s) ==
    IF s = <<>> \/ ~IsDigit(s[1]) THEN <<>> ELSE <<s[1]>> \o DigitRun(Tail(s))

\* the number a sequence of decimal digits denotes (0 for none)
RECURSIVE DigitsValue(_)
DigitsValue(s) ==
    IF s = <<>> THEN 0
    ELSE DigitsValue(SubSeq(s, 1, Len(s) - 1)) * 10 + DigitValue(s[Len(s)])

\* the decimal digits of a natural number
RECURSIVE DigitsOf(_)
DigitsOf(m) ==
    IF m < 10 THEN <<DigitChars[m + 1]>>
    ELSE DigitsOf(m \div 10) \o <<DigitChars[(m % 10) + 1]>>

RECURSIVE StripTrailingZeros(_)
StripTrailingZeros(s) ==
    IF s # <<>> /\ s[Len(s)] = "0"
    THEN StripTrailingZeros(SubSeq(s, 1, Len(s) - 1))
    ELSE s

RECURSIVE PadLeft(_, _)
PadLeft(s, width) == IF Len(s) >= width THEN s ELSE PadLeft(<<"0">> \o s, width)

\* a sequence of decimal digits without its leading zeros
RECURSIVE StripLeadingZeros(_)
StripLeadingZeros(s) ==
    IF Len(s) > 1 /\ s[1] = "0" THEN StripLeadingZeros(Tail(s)) ELSE s

\* the decimal digits of a + b + carry, for sequences of decimal digits
RECURSIVE AddDigits(_, _, _)
AddDigits(a, b, carry) ==
    IF a = <<>> /\ b = <<>>
    THEN (IF carry = 0 THEN <<>> ELSE <<DigitChars[carry + 1]>>)
    ELSE LET x == IF a = <<>> THEN 0 ELSE DigitValue(a[Len(a)])
             y == IF b = <<>> THEN 0 ELSE DigitValue(b[Len(b)])
             sum == x + y + carry
         IN  AddDigits(SubSeq(a, 1, Len(a) - 1), SubSeq(b, 1, Len(b) - 1),
                       sum \div 10)
             \o <<DigitChars[(sum % 10) + 1]>>

----------------------------------------------------------------------------
(* Numbers *)

Null == [kind |-> "null", n |-> 0]
NaN == [kind |-> "nan", n |-> 0]
Infinity == [kind |-> "inf", n |-> 1]
NegInfinity == [kind |-> "inf", n |-> -1]
Inexact == [kind |-> "inexact", n |-> 0]
Fin(n) == [kind |-> "fin", n |-> n]
\* a positive whole number of more than MaxWordDigits digits
Big(digits) == [kind |-> "big", digits |-> digits]

Abs(i) == IF i < 0 THEN -i ELSE i
Sign(i) == IF i < 0 THEN -1 ELSE IF i > 0 THEN 1 ELSE 0

IsZero(x) == x.kind = "fin" /\ x.n = 0

\* the sign of a number that is neither NaN nor inexact
SignOf(x) == IF x.kind = "big" THEN 1 ELSE Sign(x.n)

\* the numbers the actions compute with
Representable(x) ==
    \/ x.kind \in {"inf", "nan"}
    \/ x.kind = "fin" /\ Abs(x.n) <= MaxAbs * Scale

Negate(x) ==
    IF x.kind \in {"fin", "inf"} THEN [x EXCEPT !.n = -x.n]
    ELSE IF x.kind = "big" THEN Inexact
    ELSE x

\* the digits of a whole number that is not negative
WholeDigits(x) == IF x.kind = "big" THEN x.digits ELSE DigitsOf(x.n \div Scale)

\* IEEE-754 addition
Plus(a, b) ==
    IF a.kind = "nan" \/ b.kind = "nan" THEN NaN
    ELSE IF a.kind = "inf" /\ b.kind = "inf" THEN (IF a.n = b.n THEN a ELSE NaN)
    ELSE IF a.kind = "inf" THEN a
    ELSE IF b.kind = "inf" THEN b
    ELSE IF a.kind = "inexact" \/ b.kind = "inexact" THEN Inexact
    ELSE IF a.kind = "big" \/ b.kind = "big" THEN
        \* whole numbers of up to 15 digits: the sum is below 2^53, a double
        (IF /\ \A x \in {a, b} :
                  \/ x.kind = "big" /\ Len(x.digits) <= 15
                  \/ x.kind = "fin" /\ x.n >= 0 /\ x.n % Scale = 0
         THEN Big(AddDigits(WholeDigits(a), WholeDigits(b), 0))
         ELSE Inexact)
    ELSE Fin(a.n + b.n)

\* IEEE-754 multiplication
Times(a, b) ==
    IF a.kind = "nan" \/ b.kind = "nan" THEN NaN
    ELSE IF a.kind = "inf" \/ b.kind = "inf" THEN
        (IF IsZero(a) \/ IsZero(b) THEN NaN
         ELSE IF a.kind = "inexact" \/ b.kind = "inexact" THEN Inexact
         ELSE [kind |-> "inf", n |-> SignOf(a) * SignOf(b)])
    ELSE IF a.kind = "inexact" \/ b.kind = "inexact" THEN Inexact
    ELSE IF a.kind = "big" \/ b.kind = "big" THEN
        (IF IsZero(a) \/ IsZero(b) THEN Fin(0) ELSE Inexact)
    ELSE IF (a.n * b.n) % Scale = 0 THEN Fin((a.n * b.n) \div Scale)
    ELSE Inexact

\* IEEE-754 division (a zero divisor is taken as +0; calculate never
\* divides by a zero)
Over(a, b) ==
    IF a.kind = "nan" \/ b.kind = "nan" THEN NaN
    ELSE IF a.kind = "inf" /\ b.kind = "inf" THEN NaN
    ELSE IF IsZero(b) THEN
        (IF IsZero(a) THEN NaN
         ELSE IF a.kind = "inexact" THEN Inexact
         ELSE [kind |-> "inf", n |-> SignOf(a)])
    ELSE IF a.kind = "inexact" \/ b.kind = "inexact" THEN Inexact
    ELSE IF a.kind = "inf" THEN [kind |-> "inf", n |-> a.n * SignOf(b)]
    ELSE IF b.kind = "inf" THEN Fin(0)
    ELSE IF a.kind = "big" \/ b.kind = "big" THEN Inexact
    ELSE IF (Abs(a.n) * Scale) % Abs(b.n) = 0
         THEN Fin(Sign(a.n) * Sign(b.n) * ((Abs(a.n) * Scale) \div Abs(b.n)))
    ELSE Inexact

\* parseFloat: the longest prefix of str that is a decimal literal
\* (display texts hold no exponent part and no '+' sign)
parseFloat(str) ==
    LET neg == str # <<>> /\ str[1] = "-"
        body == IF neg THEN Tail(str) ELSE str
        intDigits == DigitRun(body)
        afterInt == SubSeq(body, Len(intDigits) + 1, Len(body))
        hasPoint == afterInt # <<>> /\ afterInt[1] = "."
        fracDigits == IF hasPoint THEN DigitRun(Tail(afterInt)) ELSE <<>>
        frac == StripTrailingZeros(fracDigits)
        den == Pow(10, Len(frac))
        num == (DigitsValue(intDigits) * den + DigitsValue(frac)) * Scale
    IN  IF StartsWith(body, InfinityChars)
            THEN (IF neg THEN NegInfinity ELSE Infinity)
        ELSE IF intDigits = <<>> /\ fracDigits = <<>> THEN NaN
        ELSE IF Len(StripLeadingZeros(intDigits)) > MaxWordDigits
            THEN (IF neg \/ frac # <<>> THEN Inexact
                  ELSE Big(StripLeadingZeros(intDigits)))
        ELSE IF num % den = 0
            THEN Fin((IF neg THEN -1 ELSE 1) * (num \div den))
        ELSE Inexact

\* String(number), for the numbers of the model
String(x) ==
    IF x.kind = "nan" THEN NaNChars
    ELSE IF x.kind = "inf"
        THEN (IF x.n < 0 THEN <<"-">> ELSE <<>>) \o InfinityChars
    ELSE IF x.kind = "big" THEN x.digits
    ELSE LET a == Abs(x.n)
             fracDigits == StripTrailingZeros(
                 PadLeft(DigitsOf((a % Scale) * Pow(5, FracBits)), FracBits))
         IN  (IF x.n < 0 THEN <<"-">> ELSE <<>>)
             \o DigitsOf(a \div Scale)
             \o (IF fracDigits = <<>> THEN <<>> ELSE <<".">> \o fracDigits)

----------------------------------------------------------------------------
(* The program *)

\* type Operation; NoOperation is the null of `Operation | null` (no
\* Operation is the empty string, and `if (operation)` is operation # null)
Operations == {<<"÷">>, <<"×">>, <<"-">>, <<"+">>}
NoOperation == <<>>

MaxDisplayLength == 15

initialState ==
    [displayValue |-> <<"0">>,
     previousValue |-> Null,
     operation |-> NoOperation,
     waitingForOperand |-> FALSE,
     history |-> <<>>]

\* calculate without the test of val2 === 0
calculateUnguarded(val1, val2, op) ==
    CASE op = <<"+">> -> Plus(val1, val2)
      [] op = <<"-">> -> Plus(val1, Negate(val2))
      [] op = <<"×">> -> Times(val1, val2)
      [] op = <<"÷">> -> Over(val1, val2)

calculate(val1, val2, op) ==
    CASE op = <<"+">> -> Plus(val1, val2)
      [] op = <<"-">> -> Plus(val1, Negate(val2))
      [] op = <<"×">> -> Times(val1, val2)
      [] op = <<"÷">> -> IF IsZero(val2) THEN Infinity ELSE Over(val1, val2)

\* digits in groups of three, as toLocaleString('en-US') writes them
RECURSIVE Grouped(_)
Grouped(digits) ==
    IF Len(digits) <= 3 THEN digits
    ELSE Grouped(SubSeq(digits, 1, Len(digits) - 3))
         \o <<",">> \o SubSeq(digits, Len(digits) - 2, Len(digits))

\* parseFloat(integer).toLocaleString('en-US', {maximumFractionDigits: 0})
\* for a text without '.' and without "Infinity"
formattedInteger(integer) ==
    LET x == parseFloat(integer)
    IN  IF x.kind = "nan" THEN NaNChars
        ELSE IF x.kind = "big" THEN Grouped(x.digits)
        ELSE (IF integer[1] = "-" THEN <<"-">> ELSE <<>>)
             \o Grouped(DigitsOf(Abs(x.n) \div Scale))

\* value.split('.')[0]
SplitInteger(value) ==
    IF Includes(value, <<".">>)
    THEN SubSeq(value, 1, (CHOOSE i \in 1..Len(value) :
             value[i] = "." /\ \A j \in 1..(i - 1) : value[j] # ".") - 1)
    ELSE value

\* value.split('.')[1], with undefined as the empty text (both are falsy)
SplitDecimal(value) ==
    LET rest == SubSeq(value, Len(SplitInteger(value)) + 2, Len(value))
    IN  SplitInteger(rest)

formatDisplayValue(value) ==
    IF Includes(value, InfinityChars) THEN ErrorChars
    ELSE LET integer == SplitInteger(value)
             decimal == SplitDecimal(value)
         IN  IF decimal # <<>>
             THEN formattedInteger(integer) \o <<".">> \o decimal
             ELSE formattedInteger(integer)

\* clearAll resetting the display alone
clearAllKeepsPending(s) == [s EXCEPT !.displayValue = <<"0">>]

clearAll(s) == initialState

\* inputDigit leaving waitingForOperand set
inputDigitKeepsWaiting(s, digit) ==
    IF s.waitingForOperand
    THEN [s EXCEPT !.displayValue = digit]
    ELSE IF Len(s.displayValue) >= MaxDisplayLength THEN s
    ELSE [s EXCEPT !.displayValue =
              IF s.displayValue = <<"0">> THEN digit ELSE s.displayValue \o digit]

\* inputDigit appending to the display while waitingForOperand is set
inputDigitAppendsWhileWaiting(s, digit) ==
    IF s.waitingForOperand
    THEN [s EXCEPT !.displayValue = s.displayValue \o digit,
                   !.waitingForOperand = FALSE]
    ELSE IF Len(s.displayValue) >= MaxDisplayLength THEN s
    ELSE [s EXCEPT !.displayValue =
              IF s.displayValue = <<"0">> THEN digit ELSE s.displayValue \o digit]

\* inputDigit without the test of displayValue.length
inputDigitUnlimited(s, digit) ==
    IF s.waitingForOperand
    THEN [s EXCEPT !.displayValue = digit, !.waitingForOperand = FALSE]
    ELSE [s EXCEPT !.displayValue =
              IF s.displayValue = <<"0">> THEN digit ELSE s.displayValue \o digit]

\* inputDigit appending to a display that is exactly '0'
inputDigitAppendsToZero(s, digit) ==
    IF s.waitingForOperand
    THEN [s EXCEPT !.displayValue = digit, !.waitingForOperand = FALSE]
    ELSE IF Len(s.displayValue) >= MaxDisplayLength THEN s
    ELSE [s EXCEPT !.displayValue = s.displayValue \o digit]

inputDigit(s, digit) ==
    IF s.waitingForOperand
    THEN [s EXCEPT !.displayValue = digit, !.waitingForOperand = FALSE]
    ELSE IF Len(s.displayValue) >= MaxDisplayLength THEN s
    ELSE [s EXCEPT !.displayValue =
              IF s.displayValue = <<"0">> THEN digit ELSE s.displayValue \o digit]

\* inputDecimal without the test of includes('.')
inputDecimalUnguarded(s) ==
    IF s.waitingForOperand
    THEN [s EXCEPT !.displayValue = <<"0", ".">>, !.waitingForOperand = FALSE]
    ELSE [s EXCEPT !.displayValue = s.displayValue \o <<".">>]

inputDecimal(s) ==
    IF s.waitingForOperand
    THEN [s EXCEPT !.displayValue = <<"0", ".">>, !.waitingForOperand = FALSE]
    ELSE IF ~Includes(s.displayValue, <<".">>)
    THEN [s EXCEPT !.displayValue = s.displayValue \o <<".">>]
    ELSE s

\* performOperation replacing a pending operation without resolving it
performOperationDefers(s, nextOperation) ==
    IF s.previousValue = Null
    THEN [s EXCEPT
             !.previousValue = parseFloat(s.displayValue),
             !.waitingForOperand = TRUE,
             !.operation = nextOperation,
             !.history = formatDisplayValue(s.displayValue)
                         \o <<" ">> \o nextOperation]
    ELSE [s EXCEPT !.waitingForOperand = TRUE, !.operation = nextOperation]

\* performOperation ignoring an operator that follows an operator
performOperationIgnoresRepeat(s, nextOperation) ==
    IF s.waitingForOperand THEN s
    ELSE IF s.previousValue = Null
    THEN [s EXCEPT
             !.previousValue = parseFloat(s.displayValue),
             !.waitingForOperand = TRUE,
             !.operation = nextOperation,
             !.history = formatDisplayValue(s.displayValue)
                         \o <<" ">> \o nextOperation]
    ELSE LET result == calculate(s.previousValue, parseFloat(s.displayValue),
                                 s.operation)
         IN  [s EXCEPT
                 !.previousValue = result,
                 !.displayValue = String(result),
                 !.waitingForOperand = TRUE,
                 !.operation = nextOperation,
                 !.history = formatDisplayValue(String(result))
                             \o <<" ">> \o nextOperation]

\* performOperation leaving the history line when it resolves an operation
performOperationStaleHistory(s, nextOperation) ==
    IF s.previousValue = Null
    THEN [s EXCEPT
             !.previousValue = parseFloat(s.displayValue),
             !.waitingForOperand = TRUE,
             !.operation = nextOperation,
             !.history = formatDisplayValue(s.displayValue)
                         \o <<" ">> \o nextOperation]
    ELSE IF s.operation # NoOperation
    THEN LET result == calculate(s.previousValue, parseFloat(s.displayValue),
                                 s.operation)
         IN  [s EXCEPT
                 !.previousValue = result,
                 !.displayValue = String(result),
                 !.waitingForOperand = TRUE,
                 !.operation = nextOperation]
    ELSE s

\* performOperation writing the display into the history line as it is
performOperationRawHistory(s, nextOperation) ==
    IF s.previousValue = Null
    THEN [s EXCEPT
             !.previousValue = parseFloat(s.displayValue),
             !.waitingForOperand = TRUE,
             !.operation = nextOperation,
             !.history = s.displayValue \o <<" ">> \o nextOperation]
    ELSE IF s.operation # NoOperation
    THEN LET result == calculate(s.previousValue, parseFloat(s.displayValue),
                                 s.operation)
         IN  [s EXCEPT
                 !.previousValue = result,
                 !.displayValue = String(result),
                 !.waitingForOperand = TRUE,
                 !.operation = nextOperation,
                 !.history = String(result) \o <<" ">> \o nextOperation]
    ELSE s

\* performOperation leaving the display when it resolves an operation
performOperationStaleDisplay(s, nextOperation) ==
    IF s.previousValue = Null
    THEN [s EXCEPT
             !.previousValue = parseFloat(s.displayValue),
             !.waitingForOperand = TRUE,
             !.operation = nextOperation,
             !.history = formatDisplayValue(s.displayValue)
                         \o <<" ">> \o nextOperation]
    ELSE IF s.operation # NoOperation
    THEN LET result == calculate(s.previousValue, parseFloat(s.displayValue),
                                 s.operation)
         IN  [s EXCEPT
                 !.previousValue = result,
                 !.waitingForOperand = TRUE,
                 !.operation = nextOperation,
                 !.history = formatDisplayValue(String(result))
                             \o <<" ">> \o nextOperation]
    ELSE s

performOperation(s, nextOperation) ==
    LET inputValue == parseFloat(s.displayValue)
    IN  IF s.previousValue = Null
        THEN [s EXCEPT
                 !.previousValue = inputValue,
                 !.waitingForOperand = TRUE,
                 !.operation = nextOperation,
                 !.history = formatDisplayValue(s.displayValue)
                             \o <<" ">> \o nextOperation]
        ELSE IF s.operation # NoOperation
        THEN LET result == calculate(s.previousValue, inputValue, s.operation)
                 resultString == String(result)
             IN  [s EXCEPT
                     !.previousValue = result,
                     !.displayValue = resultString,
                     !.waitingForOperand = TRUE,
                     !.operation = nextOperation,
                     !.history = formatDisplayValue(resultString)
                                 \o <<" ">> \o nextOperation]
        ELSE s

\* performEquals resetting previousValue alone
performEqualsKeepsOperation(s) ==
    IF s.operation # NoOperation /\ s.previousValue # Null
    THEN [s EXCEPT
             !.displayValue = String(calculate(s.previousValue,
                                  parseFloat(s.displayValue), s.operation)),
             !.previousValue = Null,
             !.waitingForOperand = FALSE]
    ELSE s

\* performEquals leaving previousValue
performEqualsKeepsPrevious(s) ==
    IF s.operation # NoOperation /\ s.previousValue # Null
    THEN [initialState EXCEPT
             !.displayValue = String(calculate(s.previousValue,
                                  parseFloat(s.displayValue), s.operation)),
             !.previousValue = s.previousValue]
    ELSE s

\* performEquals leaving the history line
performEqualsKeepsHistory(s) ==
    IF s.operation # NoOperation /\ s.previousValue # Null
    THEN [s EXCEPT
             !.displayValue = String(calculate(s.previousValue,
                                  parseFloat(s.displayValue), s.operation)),
             !.previousValue = Null,
             !.operation = NoOperation,
             !.waitingForOperand = FALSE]
    ELSE s

\* performEquals leaving the operation pending, so that '=' repeats it
performEqualsRepeats(s) ==
    IF s.operation # NoOperation /\ s.previousValue # Null
    THEN [s EXCEPT
             !.displayValue = String(calculate(s.previousValue,
                                  parseFloat(s.displayValue), s.operation)),
             !.waitingForOperand = FALSE]
    ELSE s

performEquals(s) ==
    LET inputValue == parseFloat(s.displayValue)
    IN  IF s.operation # NoOperation /\ s.previousValue # Null
        THEN LET result == calculate(s.previousValue, inputValue, s.operation)
                 resultString == String(result)
             IN  [initialState EXCEPT !.displayValue = resultString]
        ELSE s

handleButtonClick(s, label) ==
    IF Includes(DigitChars, label) THEN inputDigit(s, label)
    ELSE IF label = <<".">> THEN inputDecimal(s)
    ELSE IF label = <<"A", "C">> THEN clearAll(s)
    ELSE IF label \in Operations THEN performOperation(s, label)
    ELSE IF label = <<"=">> THEN performEquals(s)
    ELSE s

----------------------------------------------------------------------------
(* The state machine: one action per button of the keypad *)

displayValue == state.displayValue
previousValue == state.previousValue
operation == state.operation
waitingForOperand == state.waitingForOperand
history == state.history

Constructed ==
    /\ state = initialState
    /\ lastLabel = <<>>
    /\ prior = initialState
    /\ typed = 0
    /\ pos = 0

Init ==
    /\ Constructed
    /\ script = <<>>

\* a click on `label`, a button whose onClick is handleButtonClick
Click(label) ==
    /\ state' = handleButtonClick(state, label)
    /\ prior' = state
    /\ lastLabel' = label

\* the numbers a click computes with are numbers of the model
InModel(s) ==
    /\ Representable(parseFloat(s.displayValue))
    /\ s.previousValue = Null \/ Representable(s.previousValue)

Digit(d) ==
    /\ waitingForOperand \/ typed < MaxTyped
    /\ Click(d)
    /\ typed' = IF waitingForOperand THEN 1 ELSE typed + 1
    /\ UNCHANGED <<script, pos>>

Decimal ==
    /\ waitingForOperand \/ typed < MaxTyped
    /\ Click(<<".">>)
    /\ typed' = IF waitingForOperand THEN 1 ELSE typed + 1
    /\ UNCHANGED <<script, pos>>

Clear ==
    /\ Click(<<"A", "C">>)
    /\ typed' = 0
    /\ UNCHANGED <<script, pos>>

Operator(op) ==
    /\ InModel(state)
    /\ InModel(handleButtonClick(state, op))
    /\ Click(op)
    /\ typed' = 0
    /\ UNCHANGED <<script, pos>>

\* '=' computes only with an operation pending
Equals ==
    /\ (operation # NoOperation /\ previousValue # Null) =>
           InModel(state) /\ InModel(handleButtonClick(state, <<"=">>))
    /\ Click(<<"=">>)
    /\ typed' = IF state' = state THEN typed ELSE 0
    /\ UNCHANGED <<script, pos>>

Next ==
    \/ \E d \in KeypadDigits : Digit(d)
    \/ Decimal
    \/ Clear
    \/ \E op \in Operations : Operator(op)
    \/ Equals

Spec == Init /\ [][Next]_vars

----------------------------------------------------------------------------
(* Scripted runs: the clicks of a given sequence of labels, from the state *)
(* after construction                                                      *)

\* the states a sequence of clicks leads through, as a function of the labels
RECURSIVE Run(_, _)
Run(s, labels) ==
    IF labels = <<>> THEN s
    ELSE Run(handleButtonClick(s, Head(labels)), Tail(labels))

\* the digit buttons that type the natural number m
Keys(m) == [i \in 1..Len(DigitsOf(m)) |-> <<DigitsOf(m)[i]>>]

\* the whole number m as a number of the model
Whole(m) == Fin(m * Scale)

\* largest operand of a scripted chain
ChainMax == 10

\* a op1 b op2 c =
ChainScript(a, op1, b, op2, c) ==
    Keys(a) \o <<op1>> \o Keys(b) \o <<op2>> \o Keys(c) \o << <<"=">> >>

\* the chains whose results are numbers of the model
InitChain ==
    /\ Constructed
    /\ \E a, b, c \in 0..ChainMax : \E op1, op2 \in Operations :
           /\ calculate(Whole(a), Whole(b), op1).kind # "inexact"
           /\ calculate(calculate(Whole(a), Whole(b), op1), Whole(c), op2).kind
                  # "inexact"
           /\ script = ChainScript(a, op1, b, op2, c)

Step ==
    /\ pos < Len(script)
    /\ Click(script[pos + 1])
    /\ pos' = pos + 1
    /\ UNCHANGED <<script, typed>>

SpecChain == InitChain /\ [][Step]_vars

----------------------------------------------------------------------------
(* The dispatcher called with any label: besides the keypad's buttons,      *)
(* labels that no button passes to handleButtonClick                        *)

OtherLabels == {<<"+", "/", "-">>, <<"%">>, <<>>, <<"1", "2">>}

Other(label) ==
    /\ waitingForOperand \/ typed < MaxTyped
    /\ Click(label)
    /\ typed' = IF state' = state THEN typed
                ELSE IF waitingForOperand THEN 1 ELSE typed + 1
    /\ UNCHANGED <<script, pos>>

NextDispatch ==
    \/ Next
    \/ \E label \in OtherLabels : Other(label)

SpecDispatch == Init /\ [][NextDispatch]_vars

----------------------------------------------------------------------------
(* Digit entry: digit buttons alone, clicked from the state after          *)
(* construction; script records the clicks                                 *)

EntryDigits == {<<"0">>, <<"5">>}

\* most digit clicks of one entry
MaxClicks == 17

TypeDigit(d) ==
    /\ Len(script) < MaxClicks
    /\ Click(d)
    /\ script' = Append(script, d)
    /\ pos' = pos + 1
    /\ UNCHANGED typed

NextDigits == \E d \in EntryDigits : TypeDigit(d)

SpecDigits == Init /\ [][NextDigits]_vars

\* Entry of a number: digit buttons, '.' and 'AC', clicked with no bound
\* but the display's own
Enter(label) ==
    /\ Click(label)
    /\ UNCHANGED <<typed, script, pos>>

NextEntry ==
    \/ \E d \in EntryDigits : Enter(d)
    \/ Enter(<<".">>)
    \/ Enter(<<"A", "C">>)

SpecEntry == Init /\ [][NextEntry]_vars

----------------------------------------------------------------------------
(* A digit after a result: a op b = d, from the state after construction   *)

\* the text of k characters c
Repeat(c, k) == [i \in 1..k |-> c]

\* the buttons that type a text of digits
Labels(text) == [i \in 1..Len(text) |-> <<text[i]>>]

\* first operands: short ones, and ones that fill the display or nearly
ResultOperands ==
    {<<"0">>, <<"5">>, <<"1", "2">>,
     Repeat("5", MaxDisplayLength - 1),
     Repeat("5", MaxDisplayLength),
     Repeat("9", MaxDisplayLength)}

\* largest second operand
ResultMax == 3

ResultScript(a, op, b, d) ==
    Labels(a) \o <<op>> \o Keys(b) \o << <<"=">>, d >>

\* the scripts whose result is a number of the model
InitResult ==
    /\ Constructed
    /\ \E a \in ResultOperands : \E b \in 0..ResultMax :
       \E op \in Operations : \E d \in EntryDigits :
           /\ calculate(parseFloat(a), Whole(b), op).kind # "inexact"
           /\ script = ResultScript(a, op, b, d)

SpecResult == InitResult /\ [][Step]_vars

----------------------------------------------------------------------------
(* Properties *)

ClearLabel == <<"A", "C">>
EqualsLabel == <<"=">>
DecimalLabel == <<".">>

\* the state before the last click had an operation to resolve
PriorPending == prior.operation # NoOperation /\ prior.previousValue # Null

\* what the last click, on '=' or an operator, resolved
PriorResult ==
    calculate(prior.previousValue, parseFloat(prior.displayValue), prior.operation)

\* the number of decimal points of a text
DecimalPoints(s) == Cardinality({i \in 1..Len(s) : s[i] = "."})

\* C1: in every reachable state previousValue and operation are both null
\* or both non-null.
C1_PendingPair == (previousValue = Null) <=> (operation = NoOperation)

\* an operator click has left both present
C1_Witness ==
    /\ lastLabel \in Operations
    /\ previousValue # Null
    /\ operation # NoOperation

\* C2: waitingForOperand is true only if an operation is pending and no
\* digit or '.' was clicked since the last operator click: the last click
\* of all was an operator.
C2_WaitingOnlyAfterOperator ==
    waitingForOperand => operation # NoOperation /\ lastLabel \in Operations

\* a digit was clicked after an operator and the flag is down, while the
\* operation is still pending
C2_Witness ==
    /\ Includes(DigitChars, lastLabel) /\ lastLabel # <<>>
    /\ prior.waitingForOperand
    /\ ~waitingForOperand
    /\ operation # NoOperation

\* C3: displayValue never holds more than one decimal point.
C3_OneDecimalPoint == DecimalPoints(displayValue) <= 1

\* '.' clicked first thing on a display, shown by a result or an operator,
\* that already held a decimal point
C3_Witness ==
    /\ lastLabel = DecimalLabel
    /\ typed = 1
    /\ Includes(prior.displayValue, DecimalLabel)
    /\ DecimalPoints(displayValue) = 1

\* C4: a click on 'AC' yields exactly the initial state, whatever the
\* state before, the one showing the divide-by-zero sentinel included.
C4_ClearResets == lastLabel = ClearLabel => state = initialState

\* 'AC' clicked on a display holding the sentinel, with an operation pending
C4_Witness ==
    /\ lastLabel = ClearLabel
    /\ Includes(prior.displayValue, InfinityChars)
    /\ prior.operation # NoOperation
    /\ state = initialState

\* C5: '=' clicked with operation and previousValue present leaves the
\* string of calculate(previousValue, parse(displayValue), operation) in
\* displayValue and the initial value in every other field; the clicks
\* 1 2 3 + 4 = end with display "127".
C5_EqualsResolves ==
    /\ (lastLabel = EqualsLabel /\ PriorPending) =>
           /\ displayValue = String(PriorResult)
           /\ previousValue = Null
           /\ operation = NoOperation
           /\ waitingForOperand = FALSE
           /\ history = <<>>
    /\ Run(initialState, Keys(123) \o << <<"+">> >> \o Keys(4) \o <<EqualsLabel>>)
           = [initialState EXCEPT !.displayValue = <<"1", "2", "7">>]

\* '=' has resolved a pending operation on two finite operands into a text
\* other than the one shown before
C5_Witness ==
    /\ lastLabel = EqualsLabel
    /\ PriorPending
    /\ prior.previousValue.kind = "fin"
    /\ prior.history # <<>>
    /\ displayValue = String(PriorResult)
    /\ displayValue # prior.displayValue

\* C6: '=' changes nothing when no operation is pending, and a second '='
\* right after a '=' changes nothing.
C6_EqualsIdempotent ==
    [][(lastLabel' = EqualsLabel
        /\ (operation = NoOperation \/ lastLabel = EqualsLabel))
       => state' = state]_vars

\* a '=' that changed nothing, clicked on a result that a '=' left on the
\* display (nothing typed since, no operation pending)
C6_Witness ==
    /\ lastLabel = EqualsLabel
    /\ state = prior
    /\ typed = 0
    /\ operation = NoOperation
    /\ displayValue # <<"0">>

\* the operands and operators of a scripted chain a op1 b op2 c =
FirstOperatorAt(labels) ==
    CHOOSE i \in 1..Len(labels) :
        labels[i] \in Operations /\ \A j \in 1..(i - 1) : labels[j] \notin Operations
SecondOperatorAt(labels) ==
    CHOOSE i \in (FirstOperatorAt(labels) + 1)..Len(labels) : labels[i] \in Operations
\* the whole number that the digit labels labels[from..to] write
Typed(labels, from, to) ==
    Whole(DigitsValue([i \in 1..(to - from + 1) |-> labels[from + i - 1][1]]))

\* C7: from the state after construction the clicks a op1 b op2 c = end
\* with display String(calculate(calculate(a, b, op1), c, op2)), and right
\* after the click on op2 the display shows calculate(a, b, op1); the
\* clicks 5 + 3 × 2 = end with display "16".
C7_Chaining ==
    LET i1 == FirstOperatorAt(script)
        i2 == SecondOperatorAt(script)
        a == Typed(script, 1, i1 - 1)
        b == Typed(script, i1 + 1, i2 - 1)
        c == Typed(script, i2 + 1, Len(script) - 1)
        first == calculate(a, b, script[i1])
    IN  /\ pos = i2 => displayValue = String(first)
        /\ pos = Len(script) =>
               displayValue = String(calculate(first, c, script[i2]))
        /\ (pos = Len(script)
            /\ script = ChainScript(5, <<"+">>, 3, <<"×">>, 2)) =>
               displayValue = <<"1", "6">>

\* the end of the run 5 + 3 × 2 =
C7_Witness ==
    /\ script = ChainScript(5, <<"+">>, 3, <<"×">>, 2)
    /\ pos = Len(script)
    /\ lastLabel = EqualsLabel
    /\ displayValue = <<"1", "6">>

\* C8: a division by zero resolves to the sentinel Infinity whatever the
\* dividend, a display that holds the sentinel is rendered as "Error", and
\* the clicks 9 ÷ 0 = end with "Error" rendered.
C8_DivisionByZero ==
    /\ (lastLabel \in Operations \cup {EqualsLabel}
        /\ PriorPending
        /\ prior.operation = <<"÷">>
        /\ IsZero(parseFloat(prior.displayValue))) =>
           /\ PriorResult = Infinity
           /\ displayValue = InfinityChars
           /\ formatDisplayValue(displayValue) = ErrorChars
    /\ parseFloat(displayValue).kind = "inf" =>
           formatDisplayValue(displayValue) = ErrorChars
    /\ formatDisplayValue(
           Run(initialState,
               << <<"9">>, <<"÷">>, <<"0">>, EqualsLabel >>).displayValue)
           = ErrorChars

\* '=' has divided a negative number by zero
C8_Witness ==
    /\ lastLabel = EqualsLabel
    /\ PriorPending
    /\ prior.operation = <<"÷">>
    /\ prior.previousValue.kind = "fin" /\ prior.previousValue.n < 0
    /\ IsZero(parseFloat(prior.displayValue))
    /\ formatDisplayValue(displayValue) = ErrorChars

\* C9, as claimed: when a click on an operator or on '=' resolves a pending
\* operation one of whose operands is the sentinel, the result is the
\* sentinel again and the display is rendered as "Error".
C9_SentinelPropagates ==
    (lastLabel \in Operations \cup {EqualsLabel}
     /\ PriorPending
     /\ (prior.previousValue.kind = "inf"
         \/ parseFloat(prior.displayValue).kind = "inf")) =>
        /\ parseFloat(displayValue).kind = "inf"
        /\ formatDisplayValue(displayValue) = ErrorChars

\* C10, as claimed: an operator clicked while waitingForOperand is true
\* leaves the pending operation as it was.
C10_RepeatedOperatorKeepsPending ==
    (lastLabel \in Operations /\ prior.waitingForOperand) =>
        operation = prior.operation

\* C10, amended: an operator clicked while waitingForOperand is true
\* becomes the pending operation.
C10_RepeatedOperatorReplacesPending ==
    (lastLabel \in Operations /\ prior.waitingForOperand) =>
        operation = lastLabel

\* an operator clicked right after another one has replaced it
C10_Witness ==
    /\ lastLabel \in Operations
    /\ prior.waitingForOperand
    /\ prior.operation # lastLabel
    /\ operation = lastLabel

\* C11, as claimed: a label that is no single digit, '.', operator, 'AC'
\* or '=' (such as '+/-', '%', the empty string, '12') changes no field of
\* the state when the dispatcher is called with it.
C11_OtherLabelsIgnored == lastLabel \in OtherLabels => state = prior

\* the characters of a sequence of one-character labels
Chars(labels) == [i \in 1..Len(labels) |-> labels[i][1]]

\* a text of digits without its leading zeros, but for a last one
RECURSIVE Collapsed(_)
Collapsed(s) == IF Len(s) > 1 /\ s[1] = "0" THEN Collapsed(Tail(s)) ELSE s

\* the first `width` characters of a text
Prefix(s, width) == SubSeq(s, 1, IF Len(s) < width THEN Len(s) ELSE width)

\* C12, as claimed: after any sequence of digit clicks from the state after
\* construction, displayValue is the typed sequence with its leading zeros
\* collapsed.
C12_DigitsCollapsed ==
    script # <<>> => displayValue = Collapsed(Chars(script))

\* C12, amended: displayValue is the first 15 characters of the typed
\* sequence with its leading zeros collapsed.
C12_DigitsCollapsedAndCut ==
    script # <<>> =>
        displayValue = Prefix(Collapsed(Chars(script)), MaxDisplayLength)

\* leading zeros were collapsed and a digit clicked on a full display was
\* dropped
C12_Witness ==
    /\ Len(script) > 1
    /\ script[1] = <<"0">>
    /\ Len(Collapsed(Chars(script))) > MaxDisplayLength
    /\ Len(displayValue) = MaxDisplayLength
    /\ state = prior

\* C13, as claimed: in every state reached by clicks on digits, '.' and
\* 'AC' alone, displayValue has at most 15 characters, and a digit clicked
\* on a display of 15 characters or more changes no field of the state.
C13_DisplayWithinLimit ==
    /\ Len(displayValue) <= MaxDisplayLength
    /\ (lastLabel \in EntryDigits /\ Len(prior.displayValue) >= MaxDisplayLength)
           => state = prior

\* a numeric literal under construction: digits with at most one decimal
\* point, after the minus sign that the text of a negative result starts with
NumericLiteral(s) ==
    LET body == IF s # <<>> /\ s[1] = "-" THEN Tail(s) ELSE s
    IN  /\ body # <<>>
        /\ \A i \in 1..Len(body) : IsDigit(body[i]) \/ body[i] = "."
        /\ DecimalPoints(body) <= 1

\* C14, as claimed: displayValue is always a numeric literal under
\* construction or exactly the error sentinel; no sequence of clicks leaves
\* a malformed text on the display.
C14_DisplayWellFormed ==
    NumericLiteral(displayValue) \/ displayValue = InfinityChars

EndsWith(s, p) ==
    Len(s) >= Len(p) /\ SubSeq(s, Len(s) - Len(p) + 1, Len(s)) = p

\* C15: history is the empty text exactly when no operation is pending,
\* and with an operation pending it ends with the symbol of that operation.
C15_HistoryFollowsOperation ==
    /\ (history = <<>>) <=> (operation = NoOperation)
    /\ operation # NoOperation => EndsWith(history, <<" ">> \o operation)

\* an operator click has resolved a pending operation with another symbol
\* and the history line ends with the new one
C15_Witness ==
    /\ lastLabel \in Operations
    /\ PriorPending
    /\ ~prior.waitingForOperand
    /\ prior.operation # lastLabel
    /\ EndsWith(history, lastLabel)
    /\ history # prior.history

\* C16: with waitingForOperand true a digit click sets displayValue to the
\* digit and a '.' click sets it to "0.", both clear waitingForOperand; no
\* digit or '.' click ever changes previousValue, operation or history.
C16_EntryFrame ==
    /\ (lastLabel \in KeypadDigits /\ prior.waitingForOperand) =>
           displayValue = lastLabel /\ ~waitingForOperand
    /\ (lastLabel = DecimalLabel /\ prior.waitingForOperand) =>
           displayValue = <<"0", ".">> /\ ~waitingForOperand
    /\ lastLabel \in KeypadDigits \cup {DecimalLabel} =>
           /\ previousValue = prior.previousValue
           /\ operation = prior.operation
           /\ history = prior.history

\* '.' clicked right after an operator, on a display of more than one
\* character
C16_Witness ==
    /\ lastLabel = DecimalLabel
    /\ prior.waitingForOperand
    /\ Len(prior.displayValue) > 1
    /\ displayValue = <<"0", ".">>
    /\ operation # NoOperation
    /\ history = prior.history

\* C17: an operator click with previousValue null leaves previousValue the
\* parse of displayValue, operation the operator, waitingForOperand true,
\* history the formatted display, a space and the operator, and displayValue
\* as it was; the clicks 1 2 3 4 . 5 0 + leave 1234.5 pending and history
\* "1,234.50 +".
C17_FirstOperator ==
    /\ (lastLabel \in Operations /\ prior.previousValue = Null) =>
           /\ previousValue = parseFloat(prior.displayValue)
           /\ operation = lastLabel
           /\ waitingForOperand = TRUE
           /\ history = formatDisplayValue(prior.displayValue)
                            \o <<" ">> \o lastLabel
           /\ displayValue = prior.displayValue
    /\ Run(initialState,
           Keys(1234) \o <<DecimalLabel>> \o Keys(50) \o << <<"+">> >>)
         = [displayValue |-> <<"1", "2", "3", "4", ".", "5", "0">>,
            previousValue |-> Plus(Whole(1234), Over(Whole(1), Whole(2))),
            operation |-> <<"+">>,
            waitingForOperand |-> TRUE,
            history |-> <<"1", ",", "2", "3", "4", ".", "5", "0", " ", "+">>]

\* the first operator clicked on a display whose formatted text differs
\* from it (such as "5.")
C17_Witness ==
    /\ lastLabel \in Operations
    /\ prior.previousValue = Null
    /\ Includes(prior.displayValue, DecimalLabel)
    /\ history # prior.displayValue \o <<" ">> \o lastLabel
    /\ previousValue.kind = "fin"
    /\ waitingForOperand

\* C18: in every reachable state a click on any operator leaves that
\* operator pending and waitingForOperand true; no reachable state has
\* previousValue present and operation null, the case in which
\* performOperation does nothing.
C18_OperatorAlwaysTaken ==
    /\ \A op \in Operations :
           /\ handleButtonClick(state, op).operation = op
           /\ handleButtonClick(state, op).waitingForOperand
    /\ ~(previousValue # Null /\ operation = NoOperation)
    /\ lastLabel \in Operations => operation = lastLabel /\ waitingForOperand

\* an operator clicked after '=' had resolved an operation
C18_Witness ==
    /\ lastLabel \in Operations
    /\ prior.previousValue = Null
    /\ prior.displayValue # <<"0">>
    /\ typed = 0
    /\ prior.history = <<>>
    /\ Len(prior.displayValue) > MaxTyped
    /\ operation = lastLabel
    /\ waitingForOperand

\* C19: while waitingForOperand is true the parse of displayValue is
\* previousValue (the same number; a NaN is taken to be the number NaN).
C19_DisplayShowsOperand ==
    waitingForOperand => parseFloat(displayValue) = previousValue

\* an operator click has resolved a pending operation into a number with a
\* fraction, which the display shows
C19_Witness ==
    /\ waitingForOperand
    /\ lastLabel \in Operations
    /\ PriorPending
    /\ previousValue # prior.previousValue
    /\ Includes(displayValue, DecimalLabel)
    /\ previousValue.kind = "fin"

\* the last click was the digit that follows the '=' of a script
DigitAfterResult ==
    /\ pos = Len(script)
    /\ pos > 1
    /\ script[pos - 1] = EqualsLabel
    /\ lastLabel \in EntryDigits

\* C20 as stated: '=' that resolves an operation leaves waitingForOperand
\* false with nothing pending, and the digit clicked next is appended to the
\* result text, or replaces it when it is "0".
C20_DigitAfterResultAppends ==
    /\ (lastLabel = EqualsLabel /\ PriorPending) =>
           /\ ~waitingForOperand
           /\ previousValue = Null
           /\ operation = NoOperation
    /\ DigitAfterResult =>
           displayValue = IF prior.displayValue = <<"0">> THEN lastLabel
                          ELSE prior.displayValue \o lastLabel

\* C20: '=' that resolves an operation leaves waitingForOperand false with
\* nothing pending, and the digit clicked next replaces a result text "0",
\* is dropped when the result text holds MaxDisplayLength characters or
\* more, and is appended to it otherwise; 5 + 3 = 5 shows "85".
C20_DigitAfterResultAppendsOrDropped ==
    /\ (lastLabel = EqualsLabel /\ PriorPending) =>
           /\ ~waitingForOperand
           /\ previousValue = Null
           /\ operation = NoOperation
    /\ DigitAfterResult =>
           /\ ~waitingForOperand
           /\ displayValue =
                  IF prior.displayValue = <<"0">> THEN lastLabel
                  ELSE IF Len(prior.displayValue) >= MaxDisplayLength
                      THEN prior.displayValue
                  ELSE prior.displayValue \o lastLabel
    /\ Run(initialState, ResultScript(<<"5">>, <<"+">>, 3, <<"5">>)).displayValue
         = <<"8", "5">>

\* a digit clicked on a result that fills the display
C20_Witness ==
    /\ DigitAfterResult
    /\ Len(prior.displayValue) > MaxDisplayLength
    /\ prior.previousValue = Null
    /\ state = prior

====
